---- MODULE Spec2Model ----
(***************************************************************************)
(* Model of the TOON playground: the TOONEncoder class of toon_encoder.py  *)
(* and the /api/llm-test handler of app.py.                                *)
(*                                                                         *)
(* A text is a sequence of one-character strings.  A Value is a record     *)
(* with a tag t and the payload fields b (bool), n (int), s (string),      *)
(* keys/items (array elements, or the keys and values of a dict in         *)
(* insertion order).  Numbers are Python ints; floats are not modelled.    *)
(* The encoder keeps no state between calls, so a behaviour is the         *)
(* construction of an encoder followed by one call of one of its methods   *)
(* or of the HTTP handler; op names the call made and ret, uniform,        *)
(* http_status and http_detail hold what it returned.                      *)
(***************************************************************************)
EXTENDS Integers, Sequences, FiniteSets, TLC

VARIABLES indent_size, op, data, indent, ret, uniform, api_key, api_fails,
          http_status, http_detail

vars == <<indent_size, op, data, indent, ret, uniform, api_key, api_fails,
          http_status, http_detail>>

(***************************************************************************)
(* Bounds of the model.                                                    *)
(***************************************************************************)
MaxStrLen == 3
MaxArrLen == 2
MaxIndentSize == 2

(***************************************************************************)
(* Values.                                                                 *)
(***************************************************************************)
Null == [t |-> "null", b |-> FALSE, n |-> 0, s |-> <<>>, keys |-> <<>>, items |-> <<>>]

Bool(x) == [t |-> "bool", b |-> x, n |-> 0, s |-> <<>>, keys |-> <<>>, items |-> <<>>]

Num(x) == [t |-> "num", b |-> FALSE, n |-> x, s |-> <<>>, keys |-> <<>>, items |-> <<>>]

Str(x) == [t |-> "str", b |-> FALSE, n |-> 0, s |-> x, keys |-> <<>>, items |-> <<>>]

Arr(xs) == [t |-> "arr", b |-> FALSE, n |-> 0, s |-> <<>>, keys |-> <<>>, items |-> xs]

Obj(ks, xs) == [t |-> "obj", b |-> FALSE, n |-> 0, s |-> <<>>, keys |-> ks, items |-> xs]

IsPrimitive(v) == v.t \in {"null", "bool", "num", "str"}

(***************************************************************************)
(* Python string primitives used by the encoder.                           *)
(***************************************************************************)
Spaces(k) == [i \in 1..k |-> " "]

RECURSIVE Join(_, _)
Join(parts, sep) ==
    IF Len(parts) = 0 THEN <<>>
    ELSE IF Len(parts) = 1 THEN parts[1]
    ELSE parts[1] \o sep \o Join(Tail(parts), sep)

RECURSIVE Replace(_, _, _)
Replace(text, ch, repl) ==
    IF Len(text) = 0 THEN <<>>
    ELSE (IF text[1] = ch THEN repl ELSE <<text[1]>>) \o Replace(Tail(text), ch, repl)

Contains(text, ch) == \E i \in 1..Len(text) : text[i] = ch

Index(text, ch) == CHOOSE i \in 1..Len(text) : text[i] = ch /\ \A j \in 1..(i - 1) : text[j] # ch

Whitespace == {" ", "\t", "\n", "\r"}

RECURSIVE Strip(_)
Strip(text) ==
    IF Len(text) = 0 THEN <<>>
    ELSE IF text[1] \in Whitespace THEN Strip(Tail(text))
    ELSE IF text[Len(text)] \in Whitespace THEN Strip(SubSeq(text, 1, Len(text) - 1))
    ELSE text

Digit(d) == <<CASE d = 0 -> "0" [] d = 1 -> "1" [] d = 2 -> "2" [] d = 3 -> "3" [] d = 4 -> "4"
                [] d = 5 -> "5" [] d = 6 -> "6" [] d = 7 -> "7" [] d = 8 -> "8" [] d = 9 -> "9">>

RECURSIVE NatStr(_)
NatStr(k) == IF k < 10 THEN Digit(k) ELSE NatStr(k \div 10) \o Digit(k % 10)

IntStr(k) == IF k < 0 THEN <<"-">> \o NatStr(0 - k) ELSE NatStr(k)

(***************************************************************************)
(* TOONEncoder.                                                            *)
(***************************************************************************)
RECURSIVE encode(_, _), _encode_array(_, _), _encode_object(_, _)

\* Variant of _encode_string that escapes the double quote before the backslash.
_encode_string_quote_first(s) ==
    LET needs_quotes ==
            \/ \E c \in {",", ":", "\n", "\r"} : Contains(s, c)
            \/ (Len(s) > 0 /\ s[1] \in {"#", "-", "[", "{"})
            \/ s \in {<<"n", "u", "l", "l">>, <<"t", "r", "u", "e">>, <<"f", "a", "l", "s", "e">>}
            \/ Strip(s) = <<>>
        escaped == Replace(Replace(s, "\"", <<"\\", "\"">>), "\\", <<"\\", "\\">>)
    IN  IF needs_quotes THEN <<"\"">> \o escaped \o <<"\"">> ELSE s

_encode_string(s) ==
    LET needs_quotes ==
            \/ \E c \in {",", ":", "\n", "\r"} : Contains(s, c)
            \/ (Len(s) > 0 /\ s[1] \in {"#", "-", "[", "{"})
            \/ s \in {<<"n", "u", "l", "l">>, <<"t", "r", "u", "e">>, <<"f", "a", "l", "s", "e">>}
            \/ Strip(s) = <<>>
        escaped == Replace(Replace(s, "\\", <<"\\", "\\">>), "\"", <<"\\", "\"">>)
    IN  IF needs_quotes THEN <<"\"">> \o escaped \o <<"\"">> ELSE s

\* Variant of _is_uniform_array_of_objects that compares the key sets, not the
\* key sequences.
_is_uniform_by_key_set(arr) ==
    IF Len(arr.items) = 0 \/ ~(\A i \in 1..Len(arr.items) : arr.items[i].t = "obj")
    THEN <<FALSE, <<>>>>
    ELSE LET first_keys == arr.items[1].keys
             bad(item) == \/ {item.keys[j] : j \in 1..Len(item.keys)}
                               # {first_keys[j] : j \in 1..Len(first_keys)}
                          \/ ~(\A j \in 1..Len(item.items) : IsPrimitive(item.items[j]))
         IN  IF \E i \in 1..Len(arr.items) : bad(arr.items[i])
             THEN <<FALSE, <<>>>>
             ELSE <<TRUE, first_keys>>

_is_uniform_array_of_objects(arr) ==
    IF Len(arr.items) = 0 \/ ~(\A i \in 1..Len(arr.items) : arr.items[i].t = "obj")
    THEN <<FALSE, <<>>>>
    ELSE LET first_keys == arr.items[1].keys
             bad(item) == \/ item.keys # first_keys
                          \/ ~(\A j \in 1..Len(item.items) : IsPrimitive(item.items[j]))
         IN  IF \E i \in 1..Len(arr.items) : bad(arr.items[i])
             THEN <<FALSE, <<>>>>
             ELSE <<TRUE, first_keys>>

_encode_primitive(value) ==
    CASE value.t = "null" -> <<"n", "u", "l", "l">>
      [] value.t = "bool" -> IF value.b THEN <<"t", "r", "u", "e">> ELSE <<"f", "a", "l", "s", "e">>
      [] value.t = "num" -> IntStr(value.n)
      [] OTHER -> _encode_string(value.s)

Item(obj, field) == obj.items[CHOOSE j \in 1..Len(obj.keys) : obj.keys[j] = field]

ArrayTableHeader(arr, fields) ==
    LET fields_str == Join(fields, <<",">>)
    IN  <<"[">> \o IntStr(Len(arr.items)) \o <<"]", "{">> \o fields_str \o <<"}", ":">>

ArrayTableRow(item, fields, ind) ==
    LET indent_str == Spaces(ind + indent_size)
        values == [j \in 1..Len(fields) |-> _encode_primitive(Item(item, fields[j]))]
    IN  indent_str \o Join(values, <<",">>)

ListItem(item, ind) ==
    LET indent_str == Spaces(ind + indent_size)
    IN  IF item.t \in {"obj", "arr"}
        THEN LET item_str == encode(item, ind + indent_size)
             IN  IF Contains(item_str, "\n")
                 THEN indent_str \o <<"-", " ">>
                      \o Replace(item_str, "\n", <<"\n">> \o indent_str \o <<" ", " ">>)
                 ELSE indent_str \o <<"-", " ">> \o item_str
        ELSE indent_str \o <<"-", " ">> \o _encode_primitive(item)

_encode_array(arr, ind) ==
    IF Len(arr.items) = 0 THEN <<"[", "]">>
    ELSE LET u == _is_uniform_array_of_objects(arr)
             is_uniform == u[1]
             fields == u[2]
         IN  IF is_uniform
             THEN Join(<<ArrayTableHeader(arr, fields)>>
                       \o [i \in 1..Len(arr.items) |-> ArrayTableRow(arr.items[i], fields, ind)],
                       <<"\n">>)
             ELSE Join(<<(<<"[">> \o IntStr(Len(arr.items)) \o <<"]", ":">>)>>
                       \o [i \in 1..Len(arr.items) |-> ListItem(arr.items[i], ind)],
                       <<"\n">>)

\* Variant of the fused header that declares the number of fields as the count.
ObjectTableHeaderFieldCount(key, value, fields, ind) ==
    LET next_indent_str == Spaces(ind + indent_size)
        fields_str == Join(fields, <<",">>)
    IN  next_indent_str \o key \o <<"[">> \o IntStr(Len(fields)) \o <<"]", "{">>
        \o fields_str \o <<"}", ":">>

ObjectTableHeader(key, value, fields, ind) ==
    LET next_indent_str == Spaces(ind + indent_size)
        fields_str == Join(fields, <<",">>)
    IN  next_indent_str \o key \o <<"[">> \o IntStr(Len(value.items)) \o <<"]", "{">>
        \o fields_str \o <<"}", ":">>

ObjectTableRow(item, fields, ind) ==
    LET table_indent_str == Spaces(ind + indent_size * 2)
        values == [j \in 1..Len(fields) |-> _encode_primitive(Item(item, fields[j]))]
    IN  table_indent_str \o Join(values, <<",">>)

ObjectEntry(key, value, ind) ==
    LET next_indent_str == Spaces(ind + indent_size)
    IN  IF value.t = "obj"
        THEN LET nested == _encode_object(value, ind + indent_size)
             IN  IF Contains(nested, "\n")
                 THEN <<next_indent_str \o key \o <<":">>, nested>>
                 ELSE <<next_indent_str \o key \o <<":", " ">> \o nested>>
        ELSE IF value.t = "arr"
        THEN LET u == _is_uniform_array_of_objects(value)
                 is_uniform == u[1]
                 fields == u[2]
             IN  IF is_uniform /\ Len(value.items) # 0
                 THEN <<ObjectTableHeader(key, value, fields, ind)>>
                      \o [i \in 1..Len(value.items) |->
                             ObjectTableRow(value.items[i], fields, ind)]
                 ELSE LET array_str == _encode_array(value, ind + indent_size)
                      IN  IF Contains(array_str, "\n")
                          THEN <<next_indent_str \o key
                                 \o SubSeq(array_str, Index(array_str, "["), Len(array_str))>>
                          ELSE <<next_indent_str \o key \o <<":", " ">> \o array_str>>
        ELSE <<next_indent_str \o key \o <<":", " ">> \o _encode_primitive(value)>>

\* Variant of the entry loop that walks the keys from the last to the first.
RECURSIVE ObjectResultReversed(_, _, _)
ObjectResultReversed(obj, ind, i) ==
    IF i > Len(obj.keys) THEN <<>>
    ELSE ObjectResultReversed(obj, ind, i + 1) \o ObjectEntry(obj.keys[i], obj.items[i], ind)

RECURSIVE ObjectResult(_, _, _)
ObjectResult(obj, ind, i) ==
    IF i > Len(obj.keys) THEN <<>>
    ELSE ObjectEntry(obj.keys[i], obj.items[i], ind) \o ObjectResult(obj, ind, i + 1)

_encode_object(obj, ind) ==
    IF Len(obj.keys) = 0 THEN <<"{", "}">>
    ELSE Join(ObjectResult(obj, ind, 1), <<"\n">>)

encode(d, ind) ==
    CASE d.t = "null" -> <<"n", "u", "l", "l">>
      [] d.t = "bool" -> IF d.b THEN <<"t", "r", "u", "e">> ELSE <<"f", "a", "l", "s", "e">>
      [] d.t = "num" -> IntStr(d.n)
      [] d.t = "str" -> _encode_string(d.s)
      [] d.t = "arr" -> _encode_array(d, ind)
      [] d.t = "obj" -> _encode_object(d, ind)

(***************************************************************************)
(* app.py: POST /api/llm-test.  The body of the try block either returns   *)
(* or raises; the except clause turns every raised Exception, the          *)
(* HTTPException of the missing key included, into an HTTPException 500.   *)
(***************************************************************************)
TryBody(key, fails) ==
    IF ~key
    THEN [raised |-> TRUE, status |-> 400, detail |-> "OpenAI API key not found"]
    ELSE IF fails
    THEN [raised |-> TRUE, status |-> 0, detail |-> "api failure"]
    ELSE [raised |-> FALSE, status |-> 200, detail |-> "success"]

test_with_llm(key, fails) ==
    LET r == TryBody(key, fails)
    IN  IF r.raised
        THEN [status |-> 500, detail |-> "LLM API error"]
        ELSE [status |-> r.status, detail |-> r.detail]

(***************************************************************************)
(* Inputs.                                                                 *)
(***************************************************************************)
StrChars == {"a", ",", ":", "\n", "\r", "#", "-", "[", "{", "\"", "\\", " ", "\t"}

Words == {<<"n", "u", "l", "l">>, <<"t", "r", "u", "e">>, <<"f", "a", "l", "s", "e">>,
          <<"N", "u", "l", "l">>, <<"n", "u", "l", "l", "s">>, <<"h", "e", "l", "l", "o">>,
          <<"1">>, <<"1", "2">>, <<"a", "1">>}

Strings == UNION {[1..k -> StrChars] : k \in 0..MaxStrLen} \cup Words

ShortStrings == {<<>>} \cup {<<c>> : c \in StrChars} \cup Words

Numbers == {-7, 0, 1, 12}

Keys == {<<"a">>, <<"b">>}

KeySeqs == {<<>>} \cup {<<k>> : k \in Keys} \cup {<<j, k>> : <<j, k>> \in {q \in Keys \X Keys : q[1] # q[2]}}

Primitives ==
    {Null, Bool(TRUE), Bool(FALSE)} \cup {Num(k) : k \in Numbers} \cup {Str(s) : s \in ShortStrings}

Leaves == {Null, Num(12), Str(<<"a">>)}

Cells == {Num(1), Str(<<",", "\n">>)}

ObjectsOver(V) == {Obj(ks, xs) : <<ks, xs>> \in UNION {{ks} \X [1..Len(ks) -> V] : ks \in KeySeqs}}

ArraysOver(V) == {Arr(xs) : xs \in UNION {[1..k -> V] : k \in 0..MaxArrLen}}

Rows == ObjectsOver(Cells)

Elements == Leaves \cup Rows \cup ArraysOver({Num(1)})

Arrays == ArraysOver(Elements)

FieldArrays == ArraysOver(Rows) \cup ArraysOver({Num(1), Arr(<<Num(1), Num(1)>>)})

Shallow == Leaves \cup Rows

KeyPairs == {ks \in KeySeqs : Len(ks) = 2}

Objects ==
    ObjectsOver(Shallow)
    \cup {Obj(<<k>>, <<d>>) : <<k, d>> \in Keys \X FieldArrays}
    \cup {Obj(q[1], <<q[2], q[3]>>) : q \in KeyPairs \X FieldArrays \X {Num(12)}}
    \cup {Obj(q[1], <<q[3], q[2]>>) : q \in KeyPairs \X FieldArrays \X {Num(12)}}

IndentSizes == 1..MaxIndentSize

Indents == {0, indent_size}

(***************************************************************************)
(* The specification: an encoder is constructed, then one call is made.    *)
(***************************************************************************)
NoText == <<>>

NoUniform == <<FALSE, <<>>>>

Init ==
    /\ indent_size \in IndentSizes
    /\ op = "idle"
    /\ data = Null
    /\ indent = 0
    /\ ret = NoText
    /\ uniform = NoUniform
    /\ api_key = FALSE
    /\ api_fails = FALSE
    /\ http_status = 0
    /\ http_detail = "none"

Call(name, d, ind) ==
    /\ op' = name
    /\ data' = d
    /\ indent' = ind
    /\ UNCHANGED <<indent_size, api_key, api_fails, http_status, http_detail>>

CallEncode ==
    /\ op = "idle"
    /\ \E d \in Primitives \cup ArraysOver(Leaves) \cup ObjectsOver(Shallow \cup {Arr(<<>>)}) :
        /\ Call("encode", d, 0)
        /\ ret' = encode(d, 0)
        /\ UNCHANGED uniform

CallEncodeString ==
    /\ op = "idle"
    /\ \E s \in Strings :
        /\ Call("_encode_string", Str(s), 0)
        /\ ret' = _encode_string(s)
        /\ UNCHANGED uniform

CallEncodePrimitive ==
    /\ op = "idle"
    /\ \E d \in Primitives :
        /\ Call("_encode_primitive", d, 0)
        /\ ret' = _encode_primitive(d)
        /\ UNCHANGED uniform

CallIsUniform ==
    /\ op = "idle"
    /\ \E d \in Arrays :
        /\ Call("_is_uniform_array_of_objects", d, 0)
        /\ uniform' = _is_uniform_array_of_objects(d)
        /\ UNCHANGED ret

CallEncodeArray ==
    /\ op = "idle"
    /\ \E d \in Arrays, ind \in Indents :
        /\ Call("_encode_array", d, ind)
        /\ ret' = _encode_array(d, ind)
        /\ UNCHANGED uniform

CallEncodeObject ==
    /\ op = "idle"
    /\ \E d \in Objects, ind \in Indents :
        /\ Call("_encode_object", d, ind)
        /\ ret' = _encode_object(d, ind)
        /\ UNCHANGED uniform

CallTestWithLLM ==
    /\ op = "idle"
    /\ \E key \in BOOLEAN, fails \in BOOLEAN :
        /\ op' = "test_with_llm"
        /\ api_key' = key
        /\ api_fails' = fails
        /\ http_status' = test_with_llm(key, fails).status
        /\ http_detail' = test_with_llm(key, fails).detail
        /\ UNCHANGED <<indent_size, data, indent, ret, uniform>>

Next ==
    \/ CallTestWithLLM
    \/ CallEncode
    \/ CallEncodeString
    \/ CallEncodePrimitive
    \/ CallIsUniform
    \/ CallEncodeArray
    \/ CallEncodeObject

Spec == Init /\ [][Next]_vars

TypeOK == op \in {"idle", "encode", "_encode_string", "_encode_primitive",
                  "_is_uniform_array_of_objects", "_encode_array", "_encode_object",
                  "test_with_llm"}

(***************************************************************************)
(* Text measurements used by the properties.                               *)
(***************************************************************************)
Txt(parts) == Join(parts, <<>>)

LeadingSpaces(line) ==
    IF \A i \in 1..Len(line) : line[i] = " " THEN Len(line)
    ELSE (CHOOSE i \in 1..Len(line) : line[i] # " " /\ \A j \in 1..(i - 1) : line[j] = " ") - 1

StartsWith(text, prefix) ==
    Len(text) >= Len(prefix) /\ SubSeq(text, 1, Len(prefix)) = prefix

\* The double quotes of a text that open or close a quoted string: those not
\* escaped by an odd run of backslashes.
QuoteMarks(text) ==
    {j \in 1..Len(text) :
        /\ text[j] = "\""
        /\ LET run == CHOOSE k \in 0..(j - 1) :
                          /\ \A m \in 1..k : text[j - m] = "\\"
                          /\ (k = j - 1 \/ text[j - k - 1] # "\\")
           IN  run % 2 = 0}

\* The pieces of a text between the separators that stand outside quoted strings.
Split(text, sep) ==
    LET Q == QuoteMarks(text)
        S == {i \in 1..Len(text) : text[i] = sep /\ Cardinality({j \in Q : j < i}) % 2 = 0}
        cut == [m \in 0..(Cardinality(S) + 1) |->
                   IF m = 0 THEN 0
                   ELSE IF m = Cardinality(S) + 1 THEN Len(text) + 1
                   ELSE CHOOSE i \in S : Cardinality({j \in S : j < i}) = m - 1]
    IN  [m \in 1..(Cardinality(S) + 1) |-> SubSeq(text, cut[m - 1] + 1, cut[m] - 1)]

\* The lines of a text, a line feed inside a quoted string not ending a line.
LogicalLines(text) == Split(text, "\n")

\* The cells of a row body, a comma inside a quoted string not ending a cell.
RowCells(body) == IF body = <<>> THEN <<>> ELSE Split(body, ",")

Body(line) == SubSeq(line, LeadingSpaces(line) + 1, Len(line))

\* The name a key line starts with: the characters before the first ':' or '['.
KeyOf(line) ==
    LET body == Body(line)
        stops == {i \in 1..Len(body) : body[i] \in {":", "["}}
    IN  IF stops = {} THEN body
        ELSE SubSeq(body, 1, (CHOOSE i \in stops : \A j \in stops : i <= j) - 1)

\* The positions, in order, of the lines indented by exactly k columns.
LinesAt(lines, k) ==
    LET P == {p \in 1..Len(lines) : LeadingSpaces(lines[p]) = k /\ Len(lines[p]) > k}
    IN  [i \in 1..Cardinality(P) |-> CHOOSE p \in P : Cardinality({q \in P : q < p}) = i - 1]

IsObjectCall == op \in {"encode", "_encode_object"} /\ data.t = "obj" /\ data.keys # <<>>

IsArrayCall == op \in {"encode", "_encode_array"} /\ data.t = "arr" /\ data.items # <<>>

(***************************************************************************)
(* C1: encode of a root object renders the block at depth 0: the first     *)
(* entry line starts at column 0 with its key, and {"a": []} encodes to    *)
(* exactly `a: []`.                                                        *)
(***************************************************************************)
C1_RootObjectAtDepth0 ==
    (op = "encode" /\ data.t = "obj" /\ data.keys # <<>>) =>
        /\ StartsWith(ret, data.keys[1])
        /\ (data = Obj(<<<<"a">>>>, <<Arr(<<>>)>>) => ret = <<"a", ":", " ", "[", "]">>)

(***************************************************************************)
(* C3: the encoding is injective: no other value of the comparison set     *)
(* encodes to the text the encoded value produced.                         *)
(***************************************************************************)
Others == {Null, Bool(TRUE), Bool(FALSE)} \cup {Num(k) : k \in Numbers} \cup Leaves \cup Rows

C3_Injective ==
    op = "encode" => \A w \in Others : w # data => encode(w, 0) # ret

(***************************************************************************)
(* C4: the detector answers (True, keys of the first element) exactly for  *)
(* a non-empty array of objects that all have the first element's key      *)
(* sequence and only primitive field values, and (False, []) otherwise.    *)
(***************************************************************************)
Qualifies(arr) ==
    /\ arr.items # <<>>
    /\ \A i \in 1..Len(arr.items) :
          /\ arr.items[i].t = "obj"
          /\ arr.items[i].keys = arr.items[1].keys
          /\ \A j \in 1..Len(arr.items[i].items) :
                arr.items[i].items[j].t \notin {"arr", "obj"}

MustQuote(s) ==
    \/ \E i \in 1..Len(s) : s[i] \in {",", ":", "\r", "\n"}
    \/ \E c \in {"#", "-", "[", "{"} : StartsWith(s, <<c>>)
    \/ s = <<"n", "u", "l", "l">>
    \/ s = <<"t", "r", "u", "e">>
    \/ s = <<"f", "a", "l", "s", "e">>
    \/ \A i \in 1..Len(s) : s[i] \in Whitespace

EscapedChar(c) == IF c = "\\" THEN <<"\\", "\\">> ELSE IF c = "\"" THEN <<"\\", "\"">> ELSE <<c>>

Quoted(s) == <<"\"">> \o Txt([i \in 1..Len(s) |-> EscapedChar(s[i])]) \o <<"\"">>

C5_QuotingPolicy ==
    op = "_encode_string" => ret = IF MustQuote(data.s) THEN Quoted(data.s) ELSE data.s

C5_Witness ==
    /\ op = "_encode_string"
    /\ data.s = <<",", "\\", "\"">>
    /\ ret = <<"\"", ",", "\\", "\\", "\\", "\"", "\"">>

(***************************************************************************)
(* C10: with no OPENAI_API_KEY the handler answers 400 with the missing    *)
(* key detail, and 500 is answered only when the external call failed.     *)
(***************************************************************************)
C10_MissingKeyIs400 ==
    op = "test_with_llm" =>
        /\ (~api_key => http_status = 400 /\ http_detail = "OpenAI API key not found")
        /\ (http_status = 500 => api_key /\ api_fails)

(***************************************************************************)
(* C2: an entry whose value is an object with at least one entry is        *)
(* rendered as `<key>:` alone on its line, followed by one line per nested *)
(* entry, each one step deeper than the key line.                          *)
(***************************************************************************)
C2_NestedObjectOwnLine ==
    IsObjectCall =>
        LET L == LogicalLines(ret)
        IN  \A i \in 1..Len(data.keys) :
                (data.items[i].t = "obj" /\ data.items[i].keys # <<>>) =>
                    \E p \in 1..Len(L) :
                        /\ Body(L[p]) = data.keys[i] \o <<":">>
                        /\ Len(L) >= p + Len(data.items[i].keys)
                        /\ \A j \in 1..Len(data.items[i].keys) :
                              /\ LeadingSpaces(L[p + j]) = LeadingSpaces(L[p]) + indent_size
                              /\ KeyOf(L[p + j]) = data.items[i].keys[j]

(***************************************************************************)
(* C6: the entry lines of an object come in the insertion order of its     *)
(* keys, one per key, and so do the entry lines of a nested object.        *)
(***************************************************************************)
C6_KeyOrder ==
    IsObjectCall =>
        LET L == LogicalLines(ret)
            pos == LinesAt(L, LeadingSpaces(L[1]))
        IN  /\ Len(pos) = Len(data.keys)
            /\ \A i \in 1..Len(pos) : KeyOf(L[pos[i]]) = data.keys[i]
            /\ \A i \in 1..Len(data.keys) :
                  (data.items[i].t = "obj" /\ Len(data.items[i].keys) >= 2) =>
                      LET from == pos[i] + 1
                          to == IF i < Len(pos) THEN pos[i + 1] - 1 ELSE Len(L)
                      IN  /\ to - from + 1 = Len(data.items[i].keys)
                          /\ \A j \in 1..Len(data.items[i].keys) :
                                KeyOf(L[from + j - 1]) = data.items[i].keys[j]

C6_Witness ==
    /\ op = "_encode_object"
    /\ indent > 0
    /\ data.keys = <<<<"b">>, <<"a">>>>
    /\ data.items[1].t = "obj"
    /\ data.items[1].keys = <<<<"b">>, <<"a">>>>
    /\ Len(LogicalLines(ret)) = 4

(***************************************************************************)
(* C7: a tabular rendering is rectangular: the header declares the number  *)
(* of elements and the fields in order, exactly that many rows follow, and *)
(* each row has one cell per field, the encoding of that field's value.    *)
(***************************************************************************)
PrimText(v) ==
    CASE v.t = "null" -> <<"n", "u", "l", "l">>
      [] v.t = "bool" -> IF v.b THEN <<"t", "r", "u", "e">> ELSE <<"f", "a", "l", "s", "e">>
      [] v.t = "num" -> IntStr(v.n)
      [] v.t = "str" -> IF MustQuote(v.s) THEN Quoted(v.s) ELSE v.s

HeaderText(arr) ==
    Txt(<<<<"[">>, IntStr(Len(arr.items)), <<"]", "{">>,
          Join(arr.items[1].keys, <<",">>), <<"}", ":">>>>)

IsRow(line, item, fields) ==
    LET cells == RowCells(Body(line))
    IN  /\ Len(cells) = Len(fields)
        /\ \A j \in 1..Len(fields) : cells[j] = PrimText(item.items[j])

IsTable(L, p, arr) ==
    LET count == Len(arr.items)
    IN  /\ Len(L) >= p + count
        /\ \A i \in 1..count :
              /\ LeadingSpaces(L[p + i]) > LeadingSpaces(L[p])
              /\ IsRow(L[p + i], arr.items[i], arr.items[1].keys)
        /\ (Len(L) > p + count => LeadingSpaces(L[p + count + 1]) <= LeadingSpaces(L[p]))

TabularFields(obj) == {i \in 1..Len(obj.keys) : obj.items[i].t = "arr" /\ Qualifies(obj.items[i])}

C7_Rectangular ==
    /\ (IsArrayCall /\ Qualifies(data)) =>
           LET L == LogicalLines(ret)
           IN  L[1] = HeaderText(data) /\ IsTable(L, 1, data) /\ Len(L) = 1 + Len(data.items)
    /\ IsObjectCall =>
           LET L == LogicalLines(ret)
           IN  \A i \in TabularFields(data) :
                   \E p \in 1..Len(L) :
                       /\ Body(L[p]) = data.keys[i] \o HeaderText(data.items[i])
                       /\ IsTable(L, p, data.items[i])

C7_Witness ==
    /\ op = "_encode_object"
    /\ Len(data.keys) = 2
    /\ 1 \in TabularFields(data)
    /\ Len(data.items[1].items) = 2
    /\ data.items[1].items[2] = Obj(<<<<"a">>, <<"b">>>>, <<Str(<<",", "\n">>), Num(1)>>)
    /\ Len(LogicalLines(ret)) = 4

(***************************************************************************)
(* C8: the rows of a tabular object field are indented two steps deeper    *)
(* than the line of the key.                                               *)
(***************************************************************************)
C8_RowsTwoStepsDeeper ==
    IsObjectCall =>
        LET L == LogicalLines(ret)
        IN  \A i \in TabularFields(data) :
                \A p \in 1..Len(L) :
                    Body(L[p]) = data.keys[i] \o HeaderText(data.items[i]) =>
                        \A r \in 1..Len(data.items[i].items) :
                            LeadingSpaces(L[p + r]) = LeadingSpaces(L[p]) + 2 * indent_size

(***************************************************************************)
(* C9: in list layout every element is a `- ` line at indent +             *)
(* indent_size, and every continuation line of a container element is its  *)
(* line of the recursive rendering with exactly two more columns in front. *)
(***************************************************************************)
RECURSIVE PhysicalLines(_)
PhysicalLines(text) ==
    IF ~Contains(text, "\n") THEN <<text>>
    ELSE <<SubSeq(text, 1, Index(text, "\n") - 1)>>
         \o PhysicalLines(SubSeq(text, Index(text, "\n") + 1, Len(text)))

ElementLines(item, ind, extra) ==
    LET I == PhysicalLines(encode(item, ind + indent_size))
    IN  <<Spaces(ind + indent_size) \o <<"-", " ">> \o I[1]>>
        \o [k \in 1..(Len(I) - 1) |-> Spaces(extra) \o I[k + 1]]

C9_TwoMoreColumns ==
    (IsArrayCall /\ ~Qualifies(data)) =>
        PhysicalLines(ret) =
            <<(<<"[">> \o IntStr(Len(data.items)) \o <<"]", ":">>)>>
            \o Txt([i \in 1..Len(data.items) |-> ElementLines(data.items[i], indent, 2)])

====
